---- MODULE Spec2Model ----
(***************************************************************************)
(* redis_opentracing: tracing wrappers installed on redis clients,         *)
(* pipelines and pubsubs (src/redis_opentracing/__init__.py).              *)
(*                                                                         *)
(* The model follows one thread of control.  A call through a patched      *)
(* attribute runs the wrappers installed on it from the outermost to the   *)
(* innermost (one "enter" step each), then the unwrapped redis-py method,  *)
(* then the wrappers' except/finally parts from the innermost to the       *)
(* outermost (one "exit" step each).                                       *)
(*                                                                         *)
(* Python's None is the empty tuple <<>>, a present value x is <<x>>.      *)
(***************************************************************************)
EXTENDS Integers, Sequences, FiniteSets, TLC

(* ------------------------------ bounds -------------------------------- *)
\* tracing layers any one method may carry
MaxWraps == 2

(* --------------------------- program constants ------------------------ *)
_ARGUMENT_LENGTH_LIMIT == 128

PEER_HOST_IPV4 == "peer.ipv4"
PEER_HOSTNAME == "peer.hostname"
PEER_PORT == "peer.port"

None == <<>>
Some(x) == <<x>>

(* ------------------------------ strings ------------------------------- *)
Digits == {"0", "1", "2", "3", "4", "5", "6", "7", "8", "9"}

CharAt(s, i) == SubSeq(s, i, i)

\* the length of the longest run of digits of s that starts at position i
RECURSIVE DigitRun(_, _)
DigitRun(s, i) ==
    IF i <= Len(s) /\ CharAt(s, i) \in Digits THEN 1 + DigitRun(s, i + 1) ELSE 0

\* s[i..] matches (\. \d{1,3}){groups} followed by the end of the string
RECURSIVE MatchGroups(_, _, _)
MatchGroups(s, i, groups) ==
    IF groups = 0
    THEN i = Len(s) + 1 \/ (i = Len(s) /\ CharAt(s, i) = "\n")
    ELSE \E n \in 1..3 :
            /\ n <= DigitRun(s, i)
            /\ IF groups = 1
               THEN MatchGroups(s, i + n, 0)
               ELSE /\ i + n <= Len(s)
                    /\ CharAt(s, i + n) = "."
                    /\ MatchGroups(s, i + n + 1, groups - 1)

\* IPV4_RE.match(host): ^\d{1,3}\.\d{1,3}\.\d{1,3}\.\d{1,3}$
IPV4_RE_match(host) == MatchGroups(host, 1, 4)

RECURSIVE Join(_, _)
\* sep.join(strs)
Join(strs, sep) ==
    IF strs = <<>> THEN ""
    ELSE IF Len(strs) = 1 THEN strs[1]
    ELSE strs[1] \o sep \o Join(Tail(strs), sep)

(* ------------------------------ values -------------------------------- *)
\* A command argument: text is str(val); str_ok is FALSE when str(val)
\* raises (under Python 2, a unicode object holding a non-ASCII character;
\* an object whose __str__ raises); unicode_ok is FALSE when unicode(...)
\* of that string fails (a byte string that is not ASCII; any value at all
\* on an interpreter that has no builtin named unicode).
Arg(s) == [text |-> s, str_ok |-> TRUE, unicode_ok |-> TRUE]
RawBytes == [text |-> "\\xff", str_ok |-> TRUE, unicode_ok |-> FALSE]
Snowman == [text |-> "\\u2603", str_ok |-> FALSE, unicode_ok |-> TRUE]

RECURSIVE Repeat(_, _)
Repeat(s, n) ==
    IF n = 0 THEN ""
    ELSE LET half == Repeat(s, n \div 2)
         IN  IF n % 2 = 0 THEN half \o half ELSE half \o half \o s

\* an operand one character longer than the limit, ending in a marker
LongText == Repeat("x", _ARGUMENT_LENGTH_LIMIT) \o "y"

\* the argument tuples the callers issue
Commands ==
    { <<Arg("SET"), Arg("k"), Arg("v")>>,
      <<Arg("MGET"), Arg(LongText), RawBytes>>,
      <<Arg("GET"), Snowman>>,
      <<>> }
\* the batches a pipeline buffers, one command at a time
Batches ==
    LET set == <<Arg("SET"), Arg("k"), Arg("v")>>
        mget == <<Arg("MGET"), Arg(LongText), RawBytes>>
        get == <<Arg("GET"), Snowman>>
    IN  { <<set>>, <<mget>>, <<set, mget>>, <<mget, set>>, <<get>> }

\* what the unwrapped redis-py method does: a result (None included) or an
\* exception
Return(v) == [kind |-> "return", val |-> v]
Raise(e) == [kind |-> "raise", val |-> e]
OrigOutcomes == {Return("OK"), Raise("ResponseError")}

(* --------------------------- connection config ------------------------ *)
Kwargs(h, p) == [host |-> h, port |-> p]
\* an object owning a connection pool (redis clients, their pipelines and
\* pubsubs)
Pooled(h, p) ==
    [connection_pool |-> Some([connection_kwargs |-> Some(Kwargs(h, p))]),
     connection_kwargs |-> None]
\* an object carrying connection_kwargs itself
Direct(h, p) == [connection_pool |-> None, connection_kwargs |-> Some(Kwargs(h, p))]
\* an object with neither attribute
Bare == [connection_pool |-> None, connection_kwargs |-> None]

\* redis.StrictRedis(host='127.0.0.1', port=6379)
ClientConn == Pooled(Some("127.0.0.1"), Some(6379))
\* pipeline-like and pubsub-like objects built by the caller
ObjectConns == { Direct(Some("1.2.3.4567"), Some(0)), Bare }

(* ------------------------------- state -------------------------------- *)
VARIABLES
    g_trace_prefix,       \* module global: None or Some(prefix)
    g_trace_all_classes,  \* module global
    klass,                \* tracing layers installed on redis.StrictRedis
                          \* (execute_command, pipeline and pubsub together)
    client,               \* the StrictRedis instance the caller holds
    pipe,                 \* the pipeline object the caller holds
    pubsub,               \* the pubsub object the caller holds
    spans,                \* the spans started by the latest call, in order
    pc,                   \* "idle" | "enter" | "unwind"
    cur,                  \* the call in progress
    wrap_prefix           \* history: g_trace_prefix at the latest activation

vars == <<g_trace_prefix, g_trace_all_classes, klass, client, pipe, pubsub,
          spans, pc, cur, wrap_prefix>>

Prefixes == {None, Some("Redis")}

(* ----------------------------- Tag Deriver ---------------------------- *)
\* faulty variant: the prefix is baked in when the wrapper is installed
_get_operation_name_at_wrap(operation_name) ==
    IF wrap_prefix /= None
    THEN wrap_prefix[1] \o "/" \o operation_name
    ELSE operation_name

\* '{0}/{1}'.format(g_trace_prefix, operation_name) when a prefix is set
_get_operation_name(operation_name) ==
    IF g_trace_prefix /= None
    THEN g_trace_prefix[1] \o "/" \o operation_name
    ELSE operation_name

\* str(val) is evaluated outside the try block: its exception leaves _truncate
_truncate_raises(val) == ~val.str_ok

_truncate(val) ==
    IF ~val.unicode_ok THEN "{bytes}"
    ELSE IF Len(val.text) > _ARGUMENT_LENGTH_LIMIT
         THEN SubSeq(val.text, 1, _ARGUMENT_LENGTH_LIMIT)
         ELSE val.text

_normalize_stmt_raises(args) == \E i \in 1..Len(args) : _truncate_raises(args[i])

\* faulty variant: the verb is left out of the statement
_normalize_stmt_operands(args) ==
    Join([i \in 1..(Len(args) - 1) |-> _truncate(args[i + 1])], " ")

_normalize_stmt(args) == Join([i \in 1..Len(args) |-> _truncate(args[i])], " ")

_normalize_stmts_raises(command_stack) ==
    \E i \in 1..Len(command_stack) : _normalize_stmt_raises(command_stack[i])

_normalize_stmts(command_stack) ==
    Join([i \in 1..Len(command_stack) |-> _normalize_stmt(command_stack[i])], ";")

\* Python truth value of host (None and '' are false) and of port (None
\* and 0 are false)
TruthyStr(opt) == opt /= None /\ opt[1] /= ""
TruthyInt(opt) == opt /= None /\ opt[1] /= 0

\* the object _peer_tags reads connection_kwargs from
PoolOf(self) == IF self.connection_pool /= None THEN self.connection_pool[1] ELSE self

\* connection_pool.connection_kwargs raises AttributeError
_peer_tags_raises(self) == PoolOf(self).connection_kwargs = None

_peer_tags(self) ==
    LET conn_info == PoolOf(self).connection_kwargs[1]
        host == conn_info.host
        port == conn_info.port
        host_tags == IF TruthyStr(host)
                     THEN IF IPV4_RE_match(host[1])
                          THEN << <<PEER_HOST_IPV4, host[1]>> >>
                          ELSE << <<PEER_HOSTNAME, host[1]>> >>
                     ELSE <<>>
        port_tags == IF TruthyInt(port) THEN << <<PEER_PORT, port[1]>> >> ELSE <<>>
    IN  host_tags \o port_tags

\* span.set_tag(key, val) on a span's tag dictionary
set_tag(tags, key, val) == (key :> val) @@ tags

RECURSIVE set_tags(_, _)
set_tags(tags, pairs) ==
    IF pairs = <<>> THEN tags
    ELSE set_tags(set_tag(tags, pairs[1][1], pairs[1][2]), Tail(pairs))

\* the tags of span after _set_base_span_tags(self, span, stmt) ran to its end;
\* `if self:` is taken as `self is not None`: every object passed is truthy
_set_base_span_tags(self, tags, stmt) ==
    LET peer == IF self /= None THEN set_tags(tags, _peer_tags(self[1])) ELSE tags
    IN  set_tag(set_tag(set_tag(set_tag(peer,
            "component", "redis-py"),
            "db.type", "redis"),
            "db.statement", stmt),
            "span.kind", "client")

_set_base_span_tags_raises(self) == self /= None /\ _peer_tags_raises(self[1])

\* a span as start_child_span hands it out
NewSpan(name) == [name |-> name, tags |-> <<>>, finished |-> 0]

\* except Exception as exc: the two error tags
TagError(span, exc) ==
    [span EXCEPT !.tags = set_tag(set_tag(@, "error", "true"), "error.object", exc)]

\* finally: span.finish()
Finish(span) == [span EXCEPT !.finished = @ + 1]

(* ------------------------- objects and wrappers ----------------------- *)
\* born is history: the class-level layers when the instance was constructed
FreshClient == [conn |-> ClientConn, wraps |-> 0, base |-> 0, born |-> klass]
NoPipe == [alive |-> FALSE, conn |-> Bare, layers |-> 0, command_stack |-> <<>>]
NoPubsub == [alive |-> FALSE, conn |-> Bare, layers |-> 0]

\* faulty variant: an instance keeps the class's methods as they were when it was
\* constructed
KlassDepth_at_construction == IF client.wraps > 0 THEN client.base ELSE client.born

\* The class-level layers beneath the client's attributes.  An instance that
\* trace_client patched holds bound methods taken from the class when it was
\* first patched (base); any other instance looks its methods up on the
\* class at call time.
KlassDepth == IF client.wraps > 0 THEN client.base ELSE klass

Layer(fn, is_klass) == [fn |-> fn, is_klass |-> is_klass]
Layers(n, fn, is_klass) == [i \in 1..n |-> Layer(fn, is_klass)]

\* wrappers around client.execute_command, outermost first
ClientLayers ==
    Layers(client.wraps, "tracing_execute_command", FALSE)
        \o Layers(KlassDepth, "tracing_execute_command", TRUE)

\* how often _patch_pipe_execute / _patch_pubsub run on an object that
\* client.pipeline() / client.pubsub() returns
FactoryLayers == client.wraps + KlassDepth

NoCall ==
    [ep |-> "none", self |-> Bare, args |-> <<>>, batch |-> <<>>, layers |-> 0,
     todo |-> <<>>, frames |-> <<>>, orig |-> None, out |-> None]

\* a call begins: the wrappers in layers are still to be entered
Begin(ep, self, args, batch, layers) ==
    /\ pc = "idle"
    /\ pc' = "enter"
    /\ spans' = <<>>
    /\ cur' = [ep |-> ep, self |-> self, args |-> args, batch |-> batch,
               layers |-> Len(layers), todo |-> layers, frames |-> <<>>,
               orig |-> None, out |-> None]

\* the caller turns to building or patching objects: the record of the
\* latest call is dropped
Forget == spans' = <<>> /\ cur' = NoCall /\ pc' = pc

Init ==
    /\ g_trace_prefix = None
    /\ g_trace_all_classes = TRUE
    /\ klass = 0
    /\ client = [conn |-> ClientConn, wraps |-> 0, base |-> 0, born |-> 0]
    /\ pipe = NoPipe
    /\ pubsub = NoPubsub
    /\ spans = <<>>
    /\ pc = "idle"
    /\ cur = NoCall
    /\ wrap_prefix = None

(* ------------------------------ activation ---------------------------- *)
\* _patch_redis_classes(): one more layer on the class's execute_command,
\* pipeline and pubsub
_patch_redis_classes(k) == k + 1

setup_tracing(trace_all_classes, prefix) ==
    /\ pc = "idle"
    /\ trace_all_classes => klass < MaxWraps
    /\ g_trace_all_classes' = trace_all_classes
    /\ g_trace_prefix' = prefix
    /\ klass' = IF trace_all_classes THEN _patch_redis_classes(klass) ELSE klass
    /\ wrap_prefix' = IF trace_all_classes THEN prefix ELSE wrap_prefix
    /\ UNCHANGED <<client, pipe, pubsub, spans, pc, cur>>

\* _patch_client(client): one more layer on the instance's execute_command,
\* pipeline and pubsub, around whatever the attribute lookup gave
_patch_client(cl) ==
    [cl EXCEPT !.wraps = @ + 1, !.base = IF cl.wraps = 0 THEN klass ELSE @]

trace_client ==
    /\ pc = "idle"
    /\ client.wraps + KlassDepth < MaxWraps
    /\ client' = _patch_client(client)
    /\ wrap_prefix' = g_trace_prefix
    /\ Forget
    /\ UNCHANGED <<g_trace_prefix, g_trace_all_classes, klass, pipe, pubsub>>

\* _patch_pipe_execute(pipe), n times: execute and immediate_execute_command
_patch_pipe_execute(p, n) == [p EXCEPT !.layers = @ + n]

trace_pipeline ==
    /\ pc = "idle"
    /\ pipe.alive
    /\ pipe.layers < MaxWraps
    /\ pipe' = _patch_pipe_execute(pipe, 1)
    /\ wrap_prefix' = g_trace_prefix
    /\ Forget
    /\ UNCHANGED <<g_trace_prefix, g_trace_all_classes, klass, client, pubsub>>

\* _patch_pubsub(pubsub), n times: parse_response and execute_command
_patch_pubsub(ps, n) == [ps EXCEPT !.layers = @ + n]

trace_pubsub ==
    /\ pc = "idle"
    /\ pubsub.alive
    /\ pubsub.layers < MaxWraps
    /\ pubsub' = _patch_pubsub(pubsub, 1)
    /\ wrap_prefix' = g_trace_prefix
    /\ Forget
    /\ UNCHANGED <<g_trace_prefix, g_trace_all_classes, klass, client, pipe>>

(* --------------------------- object creation -------------------------- *)
\* redis.StrictRedis(host=..., port=...): the caller's next client
NewClient ==
    /\ pc = "idle"
    /\ client' = FreshClient
    /\ Forget
    /\ UNCHANGED <<g_trace_prefix, g_trace_all_classes, klass, pipe, pubsub, wrap_prefix>>

\* client.pipeline(): every tracing_pipeline layer patches the new pipeline
tracing_pipeline ==
    /\ pc = "idle"
    /\ ~pipe.alive /\ ~pubsub.alive
    /\ pipe' = _patch_pipe_execute(
                  [alive |-> TRUE, conn |-> client.conn, layers |-> 0,
                   command_stack |-> <<>>],
                  FactoryLayers)
    /\ wrap_prefix' = IF FactoryLayers > 0 THEN g_trace_prefix ELSE wrap_prefix
    /\ Forget
    /\ UNCHANGED <<g_trace_prefix, g_trace_all_classes, klass, client, pubsub>>

\* client.pubsub(): every tracing_pubsub layer patches the new pubsub
tracing_pubsub ==
    /\ pc = "idle"
    /\ ~pipe.alive /\ ~pubsub.alive
    /\ pubsub' = _patch_pubsub([alive |-> TRUE, conn |-> client.conn, layers |-> 0],
                               FactoryLayers)
    /\ wrap_prefix' = IF FactoryLayers > 0 THEN g_trace_prefix ELSE wrap_prefix
    /\ Forget
    /\ UNCHANGED <<g_trace_prefix, g_trace_all_classes, klass, client, pipe>>

\* a pipeline-like object the caller built without a traced client
NewPipeline(conn) ==
    /\ pc = "idle"
    /\ ~pipe.alive /\ ~pubsub.alive
    /\ pipe' = [alive |-> TRUE, conn |-> conn, layers |-> 0, command_stack |-> <<>>]
    /\ Forget
    /\ UNCHANGED <<g_trace_prefix, g_trace_all_classes, klass, client, pubsub, wrap_prefix>>

\* a pubsub-like object the caller built without a traced client
NewPubsub(conn) ==
    /\ pc = "idle"
    /\ ~pipe.alive /\ ~pubsub.alive
    /\ pubsub' = [alive |-> TRUE, conn |-> conn, layers |-> 0]
    /\ Forget
    /\ UNCHANGED <<g_trace_prefix, g_trace_all_classes, klass, client, pipe, wrap_prefix>>

\* the caller lets go of its pipeline or pubsub
Discard ==
    /\ pc = "idle"
    /\ pipe.alive \/ pubsub.alive
    /\ pipe' = NoPipe
    /\ pubsub' = NoPubsub
    /\ Forget
    /\ UNCHANGED <<g_trace_prefix, g_trace_all_classes, klass, client, wrap_prefix>>

\* a buffered pipeline command: redis-py appends (args, options) to
\* pipe.command_stack
pipeline_execute_command(args) ==
    /\ pc = "idle"
    /\ pipe.alive
    /\ Append(pipe.command_stack, args) \in Batches
    /\ pipe' = [pipe EXCEPT !.command_stack = Append(@, args)]
    /\ Forget
    /\ UNCHANGED <<g_trace_prefix, g_trace_all_classes, klass, client, pubsub, wrap_prefix>>

(* ------------------------------- callers ------------------------------ *)
\* client.execute_command(*args)
execute_command(args) ==
    /\ Begin("execute_command", client.conn, args, <<>>, ClientLayers)
    /\ UNCHANGED <<g_trace_prefix, g_trace_all_classes, klass, client, pipe, pubsub, wrap_prefix>>

\* pubsub.execute_command(*args)
pubsub_execute_command(args) ==
    /\ pubsub.alive
    /\ Begin("pubsub.execute_command", pubsub.conn, args, <<>>,
             Layers(pubsub.layers, "tracing_execute_command", FALSE))
    /\ UNCHANGED <<g_trace_prefix, g_trace_all_classes, klass, client, pipe, pubsub, wrap_prefix>>

\* pubsub.parse_response(block, timeout)
parse_response ==
    /\ pubsub.alive
    /\ Begin("parse_response", pubsub.conn, <<>>, <<>>,
             Layers(pubsub.layers, "tracing_parse_response", FALSE))
    /\ UNCHANGED <<g_trace_prefix, g_trace_all_classes, klass, client, pipe, pubsub, wrap_prefix>>

\* pipe.execute(raise_on_error)
execute ==
    /\ pipe.alive
    /\ Begin("execute", pipe.conn, <<>>, pipe.command_stack,
             Layers(pipe.layers, "tracing_execute", FALSE))
    /\ UNCHANGED <<g_trace_prefix, g_trace_all_classes, klass, client, pipe, pubsub, wrap_prefix>>

\* pipe.immediate_execute_command(*args)
immediate_execute_command(args) ==
    /\ pipe.alive
    /\ Begin("immediate_execute_command", pipe.conn, args, <<>>,
             Layers(pipe.layers, "tracing_immediate_execute_command", FALSE))
    /\ UNCHANGED <<g_trace_prefix, g_trace_all_classes, klass, client, pipe, pubsub, wrap_prefix>>

(* ------------------------- the wrappers, going in --------------------- *)
Entering(fn) == pc = "enter" /\ cur.todo /= <<>> /\ Head(cur.todo).fn = fn

\* an exception before start_child_span: no span, the wrapper is left
RaiseBeforeSpan(exc) ==
    /\ pc' = "unwind"
    /\ cur' = [cur EXCEPT !.out = Some(Raise(exc))]
    /\ UNCHANGED spans

\* start_child_span(...), then _set_base_span_tags(self, span, stmt), then the
\* try block is entered.  The statement is an argument of _set_base_span_tags
\* and is evaluated first; neither it nor _set_base_span_tags is inside the
\* try, so an exception of theirs leaves the wrapper with the span started,
\* untagged and unfinished.
Bracket(fn, self, operation_name, stmt_raises, stmt) ==
    IF stmt_raises \/ _set_base_span_tags_raises(self)
    THEN /\ spans' = Append(spans, NewSpan(operation_name))
         /\ pc' = "unwind"
         /\ cur' = [cur EXCEPT !.out = Some(Raise(IF stmt_raises THEN "UnicodeEncodeError"
                                                  ELSE "AttributeError"))]
    ELSE /\ spans' = Append(spans, [NewSpan(operation_name) EXCEPT
                                       !.tags = _set_base_span_tags(self, @, stmt)])
         /\ pc' = "enter"
         /\ cur' = [cur EXCEPT !.todo = Tail(@),
                               !.frames = Append(@, [fn |-> fn, span |-> Len(spans) + 1])]

tracing_execute_command_enter ==
    /\ Entering("tracing_execute_command")
    /\ LET is_klass == Head(cur.todo).is_klass
           \* a class-level wrapper gets the instance as args[0]
           self == IF is_klass THEN Some(cur.self) ELSE None
           reported_args == cur.args
       IN  IF reported_args = <<>>
           THEN RaiseBeforeSpan("IndexError")
           ELSE Bracket("tracing_execute_command", self,
                        _get_operation_name(reported_args[1].text),
                        _normalize_stmt_raises(reported_args),
                        _normalize_stmt(reported_args))
    /\ UNCHANGED <<g_trace_prefix, g_trace_all_classes, klass, client, pipe, pubsub, wrap_prefix>>

tracing_execute_enter ==
    /\ Entering("tracing_execute")
    /\ IF pipe.command_stack = <<>>
       THEN \* return execute_method(...): a call-through with no span
            /\ cur' = [cur EXCEPT !.todo = Tail(@),
                                  !.frames = Append(@, [fn |-> "tracing_execute", span |-> 0])]
            /\ UNCHANGED <<spans, pc>>
       ELSE Bracket("tracing_execute", Some(cur.self), _get_operation_name("MULTI"),
                    _normalize_stmts_raises(pipe.command_stack),
                    _normalize_stmts(pipe.command_stack))
    /\ UNCHANGED <<g_trace_prefix, g_trace_all_classes, klass, client, pipe, pubsub, wrap_prefix>>

tracing_immediate_execute_command_enter ==
    /\ Entering("tracing_immediate_execute_command")
    /\ IF cur.args = <<>>
       THEN RaiseBeforeSpan("IndexError")
       ELSE Bracket("tracing_immediate_execute_command", Some(cur.self),
                    _get_operation_name(cur.args[1].text),
                    _normalize_stmt_raises(cur.args),
                    _normalize_stmt(cur.args))
    /\ UNCHANGED <<g_trace_prefix, g_trace_all_classes, klass, client, pipe, pubsub, wrap_prefix>>

tracing_parse_response_enter ==
    /\ Entering("tracing_parse_response")
    /\ Bracket("tracing_parse_response", Some(cur.self), _get_operation_name("SUB"),
               FALSE, "")
    /\ UNCHANGED <<g_trace_prefix, g_trace_all_classes, klass, client, pipe, pubsub, wrap_prefix>>

(* ----------------------- the unwrapped redis-py methods --------------- *)
AtOriginal(ep) == pc = "enter" /\ cur.todo = <<>> /\ cur.ep = ep

Outcome(o) ==
    /\ pc' = "unwind"
    /\ cur' = [cur EXCEPT !.orig = Some(o), !.out = Some(o)]

\* redis-py's execute_command reads args[0] itself
execute_command_method ==
    /\ AtOriginal("execute_command") \/ AtOriginal("pubsub.execute_command")
    /\ \E o \in OrigOutcomes : Outcome(IF cur.args = <<>> THEN Raise("IndexError") ELSE o)
    /\ UNCHANGED <<g_trace_prefix, g_trace_all_classes, klass, client, pipe, pubsub, spans, wrap_prefix>>

\* redis-py's execute sends the batch and resets the pipeline on every path
execute_method ==
    /\ AtOriginal("execute")
    /\ \E o \in OrigOutcomes : Outcome(o)
    /\ pipe' = [pipe EXCEPT !.command_stack = <<>>]
    /\ UNCHANGED <<g_trace_prefix, g_trace_all_classes, klass, client, pubsub, spans, wrap_prefix>>

immediate_execute_method ==
    /\ AtOriginal("immediate_execute_command")
    /\ \E o \in OrigOutcomes : Outcome(IF cur.args = <<>> THEN Raise("IndexError") ELSE o)
    /\ UNCHANGED <<g_trace_prefix, g_trace_all_classes, klass, client, pipe, pubsub, spans, wrap_prefix>>

parse_response_method ==
    /\ AtOriginal("parse_response")
    /\ \E o \in OrigOutcomes : Outcome(o)
    /\ UNCHANGED <<g_trace_prefix, g_trace_all_classes, klass, client, pipe, pubsub, spans, wrap_prefix>>

(* ------------------------ the wrappers, coming out -------------------- *)
Leaving(fn) ==
    pc = "unwind" /\ cur.frames /= <<>> /\ cur.frames[Len(cur.frames)].fn = fn

Top == cur.frames[Len(cur.frames)]
Pop(frames) == SubSeq(frames, 1, Len(frames) - 1)

\* faulty variant: the except clause sets no tag
Close_untagged(span, out) == Finish(span)

\* except Exception as exc: tag; finally: span.finish()
Close(span, out) == Finish(IF out.kind = "raise" THEN TagError(span, out.val) ELSE span)

\* what a wrapper that ends in `raise` / `return rv` hands to its caller
Propagate(out) == out

\* what tracing_immediate_execute_command hands to its caller: the except
\* clause does not re-raise and the function has no return statement
Swallow(out) == Return("None")

tracing_execute_command_exit ==
    /\ Leaving("tracing_execute_command")
    /\ spans' = [spans EXCEPT ![Top.span] = Close(@, cur.out[1])]
    /\ cur' = [cur EXCEPT !.frames = Pop(@), !.out = Some(Propagate(cur.out[1]))]
    /\ UNCHANGED <<g_trace_prefix, g_trace_all_classes, klass, client, pipe, pubsub, pc, wrap_prefix>>

tracing_execute_exit ==
    /\ Leaving("tracing_execute")
    /\ IF Top.span = 0
       THEN UNCHANGED spans
       ELSE spans' = [spans EXCEPT ![Top.span] = Close(@, cur.out[1])]
    /\ cur' = [cur EXCEPT !.frames = Pop(@), !.out = Some(Propagate(cur.out[1]))]
    /\ UNCHANGED <<g_trace_prefix, g_trace_all_classes, klass, client, pipe, pubsub, pc, wrap_prefix>>

tracing_immediate_execute_command_exit ==
    /\ Leaving("tracing_immediate_execute_command")
    /\ spans' = [spans EXCEPT ![Top.span] = Close(@, cur.out[1])]
    /\ cur' = [cur EXCEPT !.frames = Pop(@), !.out = Some(Swallow(cur.out[1]))]
    /\ UNCHANGED <<g_trace_prefix, g_trace_all_classes, klass, client, pipe, pubsub, pc, wrap_prefix>>

tracing_parse_response_exit ==
    /\ Leaving("tracing_parse_response")
    /\ spans' = [spans EXCEPT ![Top.span] = Close(@, cur.out[1])]
    /\ cur' = [cur EXCEPT !.frames = Pop(@), !.out = Some(Propagate(cur.out[1]))]
    /\ UNCHANGED <<g_trace_prefix, g_trace_all_classes, klass, client, pipe, pubsub, pc, wrap_prefix>>

\* the outermost callable has returned or raised: control is back at the
\* caller; the spans of the call stay with the tracer
ReturnToCaller ==
    /\ pc = "unwind"
    /\ cur.frames = <<>>
    /\ pc' = "idle"
    /\ cur' = NoCall
    /\ UNCHANGED <<g_trace_prefix, g_trace_all_classes, klass, client, pipe, pubsub, spans, wrap_prefix>>

Next ==
    \/ \E t \in BOOLEAN, p \in Prefixes : setup_tracing(t, p)
    \/ trace_client
    \/ trace_pipeline
    \/ trace_pubsub
    \/ NewClient
    \/ tracing_pipeline
    \/ tracing_pubsub
    \/ \E conn \in ObjectConns : NewPipeline(conn)
    \/ \E conn \in ObjectConns : NewPubsub(conn)
    \/ Discard
    \/ \E b \in Batches : pipeline_execute_command(b[Len(b)])
    \/ \E args \in Commands : execute_command(args)
    \/ \E args \in Commands : pubsub_execute_command(args)
    \/ parse_response
    \/ execute
    \/ \E args \in Commands : immediate_execute_command(args)
    \/ tracing_execute_command_enter
    \/ tracing_execute_enter
    \/ tracing_immediate_execute_command_enter
    \/ tracing_parse_response_enter
    \/ execute_command_method
    \/ execute_method
    \/ immediate_execute_method
    \/ parse_response_method
    \/ tracing_execute_command_exit
    \/ tracing_execute_exit
    \/ tracing_immediate_execute_command_exit
    \/ tracing_parse_response_exit
    \/ ReturnToCaller

Spec == Init /\ [][Next]_vars

(* ============================== properties ============================ *)
\* the outermost callable has finished: cur.out is what the caller receives,
\* cur.orig what the unwrapped method did (None when it was never invoked)
AtReturn == pc = "unwind" /\ cur.frames = <<>>

Finished(i) == spans[i].finished = 1
HasTag(i, key) == key \in DOMAIN spans[i].tags
ErrorTagged(i, e) ==
    /\ HasTag(i, "error") /\ spans[i].tags["error"] = "true"
    /\ HasTag(i, "error.object") /\ spans[i].tags["error.object"] = e

CommandEps == {"execute_command", "pubsub.execute_command", "immediate_execute_command"}

\* the name a span is to carry under prefix, written out
ExpectedOpName(prefix, base) ==
    IF prefix = None THEN base
    ELSE IF prefix = Some("Redis") THEN "Redis/" \o base
    ELSE "?"

\* the operation a call is named after
BaseName(call) ==
    IF call.ep = "execute" THEN "MULTI"
    ELSE IF call.ep = "parse_response" THEN "SUB"
    ELSE call.args[1].text

\* 128 characters of the long operand
LongTextCut == Repeat("x", 128)

\* the statement of each command the callers issue, written out
ExpectedStatement(args) ==
    IF args = <<Arg("SET"), Arg("k"), Arg("v")>> THEN "SET k v"
    ELSE IF args = <<Arg("MGET"), Arg(LongText), RawBytes>>
         THEN "MGET " \o LongTextCut \o " {bytes}"
    ELSE "GET \\u2603"

ExpectedBatchStatement(batch) ==
    IF Len(batch) = 1 THEN ExpectedStatement(batch[1])
    ELSE ExpectedStatement(batch[1]) \o ";" \o ExpectedStatement(batch[2])

(* C2: when the method a wrapper wraps raises E and the wrapper had created
   a span, that span carries error='true' and error.object=E and is finished
   exactly once; E reaches the caller unchanged from execute_command,
   pipeline execute and parse_response; tracing_immediate_execute_command
   tags E, does not propagate it, and returns None.  (With several wrappers
   stacked on immediate_execute_command, the wrapper next to redis-py sees E;
   the ones around it wrap a callable that returned None, and set no error
   tag.) *)
C2_ErrorTaggedFinishedPropagated ==
    (AtReturn /\ cur.orig /= None /\ cur.orig[1].kind = "raise") =>
        LET e == cur.orig[1].val
            n == Len(spans)
        IN  /\ \A i \in 1..n : Finished(i)
            /\ n > 0 => ErrorTagged(n, e)
            /\ cur.ep /= "immediate_execute_command" =>
                  /\ cur.out = Some(Raise(e))
                  /\ \A i \in 1..n : ErrorTagged(i, e)
            /\ (cur.ep = "immediate_execute_command" /\ n > 0) =>
                  /\ cur.out = Some(Return("None"))
                  /\ \A i \in 1..(n - 1) : ~HasTag(i, "error")

C2_Witness ==
    /\ AtReturn
    /\ cur.ep = "execute"
    /\ cur.orig = Some(Raise("ResponseError"))
    /\ cur.out = Some(Raise("ResponseError"))
    /\ Len(spans) = 1
    /\ ErrorTagged(1, "ResponseError")
    /\ Finished(1)

(* C9: the prefix is read when a span is started, not when a wrapper is
   installed: every span a step starts is named with the value g_trace_prefix
   has at that step ('<prefix>/<name>', or the bare name when it is None),
   for command, MULTI and SUB spans alike, and no step renames a span that
   exists: setup_tracing leaves the recorded spans as they are. *)
C9_PrefixReadPerCall ==
    [][ /\ Len(spans') > Len(spans) =>
              spans'[Len(spans')].name = ExpectedOpName(g_trace_prefix, BaseName(cur))
        /\ \A i \in 1..Len(spans) : i <= Len(spans') => spans'[i].name = spans[i].name
        /\ g_trace_prefix' /= g_trace_prefix => spans' = spans ]_vars

\* a SUB span named with the prefix set after the latest activation
C9_Witness ==
    /\ pc = "unwind"
    /\ cur.ep = "parse_response"
    /\ wrap_prefix = None
    /\ g_trace_prefix = Some("Redis")
    /\ Len(spans) = 1
    /\ spans[1].name = "Redis/SUB"

(* C5, as amended: class-level activation traces every client instance that
   was never passed to trace_client, whether it was constructed after the
   activation or before it: a command (with a verb) issued on such an
   instance starts as many spans as there are class-level layers, the first
   before anything else happens; and client.pipeline() / client.pubsub() of
   such an instance return objects that carry that many layers. *)
C5_ClassActivationTracesEveryInstance ==
    /\ [](( /\ cur.ep = "execute_command"
            /\ client.wraps = 0
            /\ cur.args /= <<>> ) =>
              /\ cur.layers = klass
              /\ (AtReturn /\ klass > 0) => Len(spans) >= 1
              /\ (AtReturn /\ cur.orig /= None) => Len(spans) = klass)
    /\ [][ /\ (~pipe.alive /\ pipe'.alive /\ pipe'.conn = client.conn /\ client.wraps = 0)
                 => pipe'.layers = klass
           /\ (~pubsub.alive /\ pubsub'.alive /\ pubsub'.conn = client.conn
                 /\ client.wraps = 0) => pubsub'.layers = klass ]_vars

\* a command on an instance constructed before the activation is traced
C5_Witness ==
    /\ AtReturn
    /\ cur.ep = "execute_command"
    /\ client.wraps = 0
    /\ client.born = 0
    /\ klass = 1
    /\ cur.orig /= None
    /\ Len(spans) = 1
    /\ Finished(1)

(* C5, as the claim states it: an instance constructed after the activation
   is traced, and an instance constructed before the activation and never
   passed to trace_client produces no span for a command issued after it. *)
C5_Original ==
    (AtReturn /\ cur.ep = "execute_command" /\ client.wraps = 0 /\ klass > 0
        /\ cur.args /= <<>>) =>
        IF client.born > 0 THEN Len(spans) >= 1 ELSE spans = <<>>

(* C8, as amended: a command issued through a traced client's
   execute_command gets spans named '<prefix>/<verb>', and the db.statement
   of a span, once the wrapper has tagged it, is the space-joined display
   form of all the arguments, the verb included (an argument longer than 128
   characters cut to 128, one that unicode() cannot convert replaced by
   '{bytes}'): with prefix 'Redis' and all-classes tracing activated once,
   SET k v on a client created afterward yields one span named 'Redis/SET'
   with db.statement = 'SET k v'. *)
C8_StatementIncludesVerb ==
    (cur.ep = "execute_command" /\ pc /= "idle") =>
        /\ \A i \in 1..Len(spans) :
              /\ spans[i].name = ExpectedOpName(g_trace_prefix, cur.args[1].text)
              /\ HasTag(i, "db.statement") =>
                    spans[i].tags["db.statement"] = ExpectedStatement(cur.args)
        /\ ( /\ AtReturn
             /\ cur.args = <<Arg("SET"), Arg("k"), Arg("v")>>
             /\ g_trace_prefix = Some("Redis")
             /\ klass = 1 /\ client.wraps = 0 /\ client.born = 1 ) =>
                /\ Len(spans) = 1
                /\ spans[1].name = "Redis/SET"
                /\ HasTag(1, "db.statement")
                /\ spans[1].tags["db.statement"] = "SET k v"

C8_Witness ==
    /\ AtReturn
    /\ cur.ep = "execute_command"
    /\ cur.args = <<Arg("SET"), Arg("k"), Arg("v")>>
    /\ g_trace_prefix = Some("Redis")
    /\ g_trace_all_classes
    /\ klass = 1 /\ client.wraps = 0 /\ client.born = 1
    /\ Len(spans) = 1
    /\ spans[1].tags["db.statement"] = "SET k v"

(* C8, as the claim states it: with prefix 'Redis' and all-classes tracing
   on, SET k v on a client created afterward yields one span named
   'Redis/SET' whose db.statement is the operands without the verb, 'k v'. *)
C8_Original ==
    ( /\ AtReturn
      /\ cur.ep = "execute_command"
      /\ cur.args = <<Arg("SET"), Arg("k"), Arg("v")>>
      /\ g_trace_prefix = Some("Redis")
      /\ g_trace_all_classes
      /\ klass = 1 /\ client.wraps = 0 /\ client.born = 1 ) =>
        /\ Len(spans) = 1
        /\ spans[1].name = "Redis/SET"
        /\ HasTag(1, "db.statement")
        /\ spans[1].tags["db.statement"] = "k v"

\* the call is a pipeline execute() on an empty command_stack
EmptyBatch == cur.ep = "execute" /\ cur.batch = <<>>

\* the object the call is issued on exposes a non-empty host and port
HasHostAndPort(self) ==
    /\ PoolOf(self).connection_kwargs /= None
    /\ TruthyStr(PoolOf(self).connection_kwargs[1].host)
    /\ TruthyInt(PoolOf(self).connection_kwargs[1].port)

(* C1, as the claim states it: with one wrapper installed on the entry
   point, a call that names a command starts exactly one span (none for
   execute() on an empty command_stack) and that span is finished exactly
   once when control is back at the caller; no span is open once a call has
   returned or raised. *)
C1_OneSpanFinishedOnEveryPath ==
    /\ (pc = "idle") => \A i \in 1..Len(spans) : Finished(i)
    /\ ( /\ AtReturn
         /\ cur.layers = 1
         /\ cur.ep \in CommandEps => cur.args /= <<>> ) =>
            /\ Len(spans) = IF EmptyBatch THEN 0 ELSE 1
            /\ \A i \in 1..Len(spans) : Finished(i)

(* C3, as the claim states it: whenever the unwrapped method returns v, the
   caller of the traced entry point receives v, for each of the four entry
   points. *)
C3_ReturnValuePreserved ==
    (AtReturn /\ cur.orig /= None /\ cur.orig[1].kind = "return") => cur.out = cur.orig

(* C4, as the claim states it: however often activation wrapped the entry
   point, one call that reaches redis-py produces exactly one span (none for
   execute() on an empty command_stack). *)
C4_ActivationIdempotent ==
    (AtReturn /\ cur.orig /= None /\ cur.layers >= 1) =>
        Len(spans) = IF EmptyBatch THEN 0 ELSE 1

(* C6, as the claim states it: tracing is fail-open: whatever a wrapper's
   bookkeeping does, the unwrapped method is invoked, the caller receives
   what it returned or raised (None from immediate_execute_command), and
   every span that was started is finished. *)
C6_FailOpen ==
    (AtReturn /\ (cur.ep \in CommandEps => cur.args /= <<>>)) =>
        /\ cur.orig /= None
        /\ cur.out = IF cur.ep = "immediate_execute_command" /\ cur.layers > 0
                     THEN Some(Return("None")) ELSE cur.orig
        /\ \A i \in 1..Len(spans) : Finished(i)

(* C7, as the claim states it: one call to execute(), wrapped once, on a
   pipeline whose command_stack is not empty produces exactly one span,
   named '<prefix>/MULTI' ('MULTI' without a prefix), whose db.statement is
   the statements of the batch as it was before the call, joined with ';' in
   submission order. *)
C7_OneMultiSpanWithBatchStatement ==
    (AtReturn /\ cur.ep = "execute" /\ cur.batch /= <<>> /\ cur.layers = 1) =>
        /\ Len(spans) = 1
        /\ spans[1].name = ExpectedOpName(g_trace_prefix, "MULTI")
        /\ HasTag(1, "db.statement")
        /\ spans[1].tags["db.statement"] = ExpectedBatchStatement(cur.batch)

(* C10, as the claim states it: when the object a traced command is issued
   on exposes a non-empty host and port, the span of a command that went
   through one wrapper and reached redis-py carries a peer host tag and the peer port tag, for a
   client traced by trace_client, a client traced through the class, and a
   pubsub's execute_command alike. *)
C10_PeerTagsOnEveryTracedCommand ==
    ( /\ AtReturn
      /\ cur.ep \in {"execute_command", "pubsub.execute_command"}
      /\ cur.orig /= None
      /\ cur.layers = 1
      /\ HasHostAndPort(cur.self) ) =>
        \A i \in 1..Len(spans) :
            /\ HasTag(i, PEER_HOST_IPV4) \/ HasTag(i, PEER_HOSTNAME)
            /\ HasTag(i, PEER_PORT)

====
